---- MODULE Spec2Model ----
(***************************************************************************)
(* Model of nordic_wellness_booker (src/src/main.rs): one tokio task per   *)
(* configured activity waits for the next cron instant, searches the       *)
(* provider listing, posts a reservation and retries through run_booking.  *)
(* Time is counted in minutes.  Text is a sequence of one-character        *)
(* strings wherever the code looks inside it (to_lowercase, contains).     *)
(***************************************************************************)
EXTENDS Integers, Sequences, FiniteSets, TLC

\* ------------------------------------------------------------ bounds
\* The clock stops advancing at MaxTime minutes after process start.
MaxTime == 10
\* Longest provider listing (groupActivities) that is enumerated.
MaxListing == 2
\* Where the clock stops when only the first search of a task is followed.
MaxFindTime == 5
\* Where the clock stops when two tasks run side by side.
MaxSiblingTime == 6

\* The largest num_retries run_booking is called with on its own
MaxRetries == 4

\* ------------------------------------------------- program constants
\* run_booking(activity, 3)
NumRetries == 3
\* Duration::minutes(1) slept before the recursive call
BackoffMinutes == 1
\* Duration::minutes(5) slept after run_booking returned
CooldownMinutes == 5

\* -------------------------------------------------------------- text
UpperChars == <<"A","B","C","D","E","F","G","H","I","J","K","L","M",
                "N","O","P","Q","R","S","T","U","V","W","X","Y","Z">>
LowerChars == <<"a","b","c","d","e","f","g","h","i","j","k","l","m",
                "n","o","p","q","r","s","t","u","v","w","x","y","z">>

\* char::to_lowercase on the ASCII letters
LowerChar(c) ==
    IF \E k \in 1..26 : UpperChars[k] = c
    THEN LowerChars[CHOOSE k \in 1..26 : UpperChars[k] = c]
    ELSE c

\* str::to_lowercase
to_lowercase(s) == [k \in 1..Len(s) |-> LowerChar(s[k])]

\* str::contains(&str): needle occurs as a contiguous substring
contains(hay, needle) ==
    \E k \in 0..(Len(hay) - Len(needle)) : SubSeq(hay, k + 1, k + Len(needle)) = needle

\* -------------------------------------------------------- Option<T>
None == [some |-> FALSE, val |-> 0]
Some(v) == [some |-> TRUE, val |-> v]

\* ---------------------------------------------------------- weekday
Weekdays == <<"Mon", "Tue", "Wed", "Thu", "Fri", "Sat", "Sun">>

\* fn parse_weekday(value: &str) -> Option<Weekday>
parse_weekday(value) ==
    LET v == to_lowercase(value) IN
    CASE v \in {<<"s","u","n">>, <<"s","u","n","d","a","y">>} -> Some("Sun")
      [] v \in {<<"m","o","n">>, <<"m","o","n","d","a","y">>} -> Some("Mon")
      [] v \in {<<"t","u","e">>, <<"t","u","e","s","d","a","y">>} -> Some("Tue")
      [] v \in {<<"w","e","d">>, <<"w","e","d","n","e","s","d","a","y">>} -> Some("Wed")
      [] v \in {<<"t","h","u">>, <<"t","h","u","r","s","d","a","y">>} -> Some("Thu")
      [] v \in {<<"f","r","i">>, <<"f","r","i","d","a","y">>} -> Some("Fri")
      [] v \in {<<"s","a","t">>, <<"s","a","t","u","r","d","a","y">>} -> Some("Sat")
      [] OTHER -> None

\* The start-time texts the provider sends in this model.  A text in
\* the format %Y-%m-%dT%H:%M:%S parses to the naive date-time it spells,
\* held as days since 1970-01-01 and seconds of the day.
WellFormedTimes ==
    {<<"2023-05-01T18:00:00", 19478, 64800>>,
     <<"2023-05-02T18:00:00", 19479, 64800>>,
     <<"2023-05-08T09:30:00", 19485, 34200>>}
MalformedTimes == {"2023-05-01 18:00:00"}
StartTimes == {t[1] : t \in WellFormedTimes} \cup MalformedTimes

\* fn parse_date(date_str: &str) -> Option<NaiveDateTime>
parse_date(date_str) ==
    IF \E t \in WellFormedTimes : t[1] = date_str
    THEN LET t == CHOOSE t \in WellFormedTimes : t[1] = date_str
         IN Some([days |-> t[2], secs |-> t[3]])
    ELSE None

\* NaiveDateTime::weekday: 1970-01-01 was a Thursday
weekday(dt) == Weekdays[((dt.days + 3) % 7) + 1]

\* ------------------------------------------------- integer casts
\* `x as u64` of an i64 and `x as u32` of a small i64: a negative x wraps
\* to 2^w + x.  The wrapped value is held as the pair (wrapped, x).
as_unsigned(x) == [wrapped |-> x < 0, low |-> x]

\* ---------------------------------------------------- configuration
\* cron_time as the cron crate reads it: whether Schedule::from_str accepts
\* it, whether get_description_cron accepts it, and the period in minutes
\* of the instants it denotes (the multiples of `every`).
EveryMinute == [valid |-> TRUE, describable |-> TRUE, every |-> 1]
EveryFive == [valid |-> TRUE, describable |-> TRUE, every |-> 5]
Unparseable == [valid |-> FALSE, describable |-> FALSE, every |-> 1]
Undescribable == [valid |-> TRUE, describable |-> FALSE, every |-> 1]
EveryWeek == [valid |-> TRUE, describable |-> TRUE, every |-> 10080]
EveryThirtyDays == [valid |-> TRUE, describable |-> TRUE, every |-> 43200]

\* struct BookableActivity (the fields the booking logic reads)
YogaMonday ==
    [name |-> <<"Y","o","g","a">>, cron_time |-> EveryMinute, user_id |-> 1,
     day |-> <<"M","o","n","d","a","y">>]
YogaTuesday ==
    [name |-> <<"y","o","g","a">>, cron_time |-> EveryFive, user_id |-> 2,
     day |-> <<"t","u","e">>]
BadCron == [YogaMonday EXCEPT !.cron_time = Unparseable]
NoDescription == [YogaMonday EXCEPT !.cron_time = Undescribable]
BadDay == [YogaTuesday EXCEPT !.day = <<"S","o","m","e">>]
YogaWeekly == [YogaMonday EXCEPT !.cron_time = EveryWeek]
YogaMonthly == [YogaTuesday EXCEPT !.cron_time = EveryThirtyDays]

ActivityChoices == {YogaMonday, YogaTuesday, BadCron, NoDescription, BadDay}

\* ./assets/bookable-activities.json: the configured list
Configurations == {<<a>> : a \in ActivityChoices}

\* Two activities: both valid, or one of them failing in its own way
SiblingConfigurations ==
    {<<YogaMonday, YogaMonday>>, <<BadCron, YogaMonday>>, <<YogaMonday, BadCron>>,
     <<YogaMonday, BadDay>>}

\* ---------------------------------------------------- provider data
\* struct GroupActivity (the fields the booking logic reads)
Entry(id, name, status, start_time) ==
    [id |-> id, name |-> name, status |-> status, start_time |-> start_time]

Entries ==
    {Entry(7, <<"Y","o","g","a"," ","F">>, "Bookable", "2023-05-01T18:00:00"),
     Entry(8, <<"Y","O","G","A">>, "Bookable", "2023-05-08T09:30:00"),
     Entry(9, <<"P","i","l">>, "Bookable", "2023-05-01T18:00:00"),
     Entry(10, <<"Y","o","g","a"," ","F">>, "Bookable", "2023-05-02T18:00:00"),
     Entry(11, <<"Y","o","g","a"," ","F">>, "Booked", "2023-05-01T18:00:00"),
     Entry(12, <<"Y","o","g","a"," ","F">>, "Bookable", "2023-05-01 18:00:00")}

RECURSIVE SeqsUpTo(_, _)
SeqsUpTo(S, n) ==
    IF n = 0 THEN {<<>>}
    ELSE LET shorter == SeqsUpTo(S, n - 1)
         IN shorter \cup {Append(s, x) : s \in shorter, x \in S}

\* struct BookingsDto: group_activities
Listings == SeqsUpTo(Entries, MaxListing)

\* What the search request can come back with: a transport error, a body
\* that is not a BookingsDto, or a listing.
SearchResponses ==
    {[kind |-> "transport", body |-> <<>>], [kind |-> "garbage", body |-> <<>>]}
    \cup {[kind |-> "listing", body |-> l] : l \in Listings}

\* The search responses of the whole-lifecycle specification: the two error
\* kinds and a few listings (none, a match, a non-match before a match, two
\* matches, a match of the other configured day, a malformed start time).
ProviderListings ==
    {l \in Listings :
        \/ l = <<>>
        \/ Len(l) = 1 /\ l[1].id \in {7, 10, 12}
        \/ Len(l) = 2 /\ <<l[1].id, l[2].id>> \in {<<11, 7>>, <<8, 7>>}}

ProviderResponses ==
    {r \in SearchResponses : r.kind = "listing" => r.body \in ProviderListings}

\* The provider's answers when two tasks run side by side
SiblingSearchResponses ==
    {r \in ProviderResponses :
        /\ r.kind # "garbage"
        /\ r.kind = "listing" => Len(r.body) <= 1 /\ (\A k \in 1..Len(r.body) : r.body[k].id \in {7, 12})}

StatusOK == 200

\* What the reservation request can come back with: a transport error, a
\* response whose body cannot be read, or a status with its body.
BookResponses ==
    {[kind |-> "transport", status |-> 0, body |-> ""],
     [kind |-> "text_error", status |-> 200, body |-> ""],
     [kind |-> "response", status |-> 200, body |-> "OK"],
     [kind |-> "response", status |-> 201, body |-> "Created"],
     [kind |-> "response", status |-> 400, body |-> "Already booked"]}

SiblingBookResponses ==
    {r \in BookResponses : r.kind = "response" /\ r.status \in {200, 400}}

\* The provider's answers over a year of occurrences
YearSearchResponses ==
    {r \in ProviderResponses :
        /\ r.kind # "garbage"
        /\ r.kind = "listing" => r.body = <<>> \/ (Len(r.body) = 1 /\ r.body[1].id \in {7, 10})}

YearBookResponses == SiblingBookResponses

\* Duration::days(365), in minutes: what main sleeps in spawn_blocking
SupervisorSleepMinutes == 525600

\* ------------------------------------------------------ Slot Matcher
\* The closure of find: unwrap of parse_date, then unwrap of parse_weekday
closure_panics(it, activity) ==
    \/ ~parse_date(it.start_time).some
    \/ ~parse_weekday(activity.day).some

\* Variant of closure_matches that forgets the status test
closure_matches_any_status(it, activity) ==
    LET same_name == contains(to_lowercase(it.name), to_lowercase(activity.name))
        correct_day == weekday(parse_date(it.start_time).val)
                         = parse_weekday(activity.day).val
    IN same_name /\ correct_day

\* The closure of find, when neither unwrap panics
closure_matches(it, activity) ==
    LET same_name == contains(to_lowercase(it.name), to_lowercase(activity.name))
        correct_day == weekday(parse_date(it.start_time).val)
                         = parse_weekday(activity.day).val
        correct_status == it.status = "Bookable"
    IN same_name /\ correct_day /\ correct_status

RECURSIVE find_from(_, _, _)
find_from(list, k, activity) ==
    IF k > Len(list) THEN [kind |-> "none", index |-> 0]
    ELSE IF closure_panics(list[k], activity) THEN [kind |-> "panic", index |-> k]
    ELSE IF closure_matches(list[k], activity) THEN [kind |-> "some", index |-> k]
    ELSE find_from(list, k + 1, activity)

RECURSIVE find_back(_, _, _)
find_back(list, k, activity) ==
    IF k < 1 THEN [kind |-> "none", index |-> 0]
    ELSE IF closure_panics(list[k], activity) THEN [kind |-> "panic", index |-> k]
    ELSE IF closure_matches(list[k], activity) THEN [kind |-> "some", index |-> k]
    ELSE find_back(list, k - 1, activity)

\* Variant of find that searches from the end of the listing
find_last(list, activity) == find_back(list, Len(list), activity)

\* dto.group_activities.iter().find(|it| ...)
find(list, activity) == find_from(list, 1, activity)

\* Result<()> of find_activity_by_name
Ok == [ok |-> TRUE, msg |-> <<>>]
Err(msg) == [ok |-> FALSE, msg |-> msg]

\* Variant of is_failure that takes only 4xx and 5xx for failures
is_failure_client_error(status) == status >= 400

\* if status != StatusCode::OK
is_failure(status) == status # StatusOK

\* format!("code {}: {}", status.as_str(), text)
err_msg(status, text) == <<"code ", status, ": ", text>>

\* ------------------------------------------------------------- state
VARIABLES
    activities,   \* the configured list, read once by main
    mainpc,       \* main: "spawning" its tasks, "blocked" in spawn_blocking, "exited"
    spawned,      \* how many tasks main has spawned
    now,          \* the wall clock, in minutes
    pc,           \* per task: the await it is suspended at
    num_retries,  \* per task: the argument of the innermost run_booking call
    prev_time,    \* per task: the instant the schedule iterator yielded last
    wait_time,    \* per task: next_time - now of the current iteration
    sleep_sec,    \* per task: wait_time.num_seconds() as u64
    wake_at,      \* per task: the deadline of the sleep it is in
    dto,          \* per task: the listing of the find_activity_by_name call
    nw_activity,  \* per task: the entry find selected in that call
    response,     \* per task: what the last reservation request came back with
    result,       \* per task: what the last find_activity_by_name returned
    outcome,      \* per task: what run_booking returned to main
    outs,         \* per task: the outcome of each attempt of this occurrence
    sent,         \* per task: ActivityId of each reservation request of this occurrence
    gets,         \* per task: listing requests issued in this occurrence
    budget,       \* per task: the argument of the outermost run_booking call
    calls,        \* per task: run_booking invocations of this occurrence
    panic         \* per task: the message of the panic that ended it

vars == <<activities, mainpc, spawned, now, pc, num_retries, prev_time, wait_time,
          sleep_sec, wake_at, dto, nw_activity, response, result, outcome, outs,
          sent, gets, budget, calls, panic>>

Runners == 1..Len(activities)

NoResponse == [kind |-> "none", status |-> 0, body |-> ""]
NoResult == [ok |-> FALSE, msg |-> <<"not called">>]
Pending == [kind |-> "pending", msg |-> <<>>]

InitWith(configs) ==
    /\ activities \in configs
    /\ mainpc = "spawning"
    /\ spawned = 0
    /\ now = 0
    /\ pc = [i \in Runners |-> "unspawned"]
    /\ num_retries = [i \in Runners |-> 0]
    /\ prev_time = [i \in Runners |-> 0]
    /\ wait_time = [i \in Runners |-> 0]
    /\ sleep_sec = [i \in Runners |-> as_unsigned(0)]
    /\ wake_at = [i \in Runners |-> 0]
    /\ dto = [i \in Runners |-> <<>>]
    /\ nw_activity = [i \in Runners |-> None]
    /\ response = [i \in Runners |-> NoResponse]
    /\ result = [i \in Runners |-> NoResult]
    /\ outcome = [i \in Runners |-> Pending]
    /\ outs = [i \in Runners |-> <<>>]
    /\ sent = [i \in Runners |-> <<>>]
    /\ gets = [i \in Runners |-> 0]
    /\ budget = [i \in Runners |-> 0]
    /\ calls = [i \in Runners |-> 0]
    /\ panic = [i \in Runners |-> ""]

Init == InitWith(Configurations)

\* ------------------------------------------------------------- main
\* for activity in bookable_activities { tokio::task::spawn(...) }
Spawn ==
    /\ mainpc = "spawning"
    /\ spawned < Len(activities)
    /\ spawned' = spawned + 1
    /\ pc' = [pc EXCEPT ![spawned + 1] = "start"]
    /\ UNCHANGED <<activities, mainpc, now, num_retries, prev_time, wait_time,
                   sleep_sec, wake_at, dto, nw_activity, response, result, outcome,
                   outs, sent, gets, budget, calls, panic>>

\* tokio::task::spawn_blocking(...).await: main yields, and on the
\* current_thread runtime the spawned tasks are polled from here on
Block ==
    /\ mainpc = "spawning"
    /\ spawned = Len(activities)
    /\ mainpc' = "blocked"
    /\ UNCHANGED <<activities, spawned, now, pc, num_retries, prev_time, wait_time,
                   sleep_sec, wake_at, dto, nw_activity, response, result, outcome,
                   outs, sent, gets, budget, calls, panic>>

\* The clock advances while every task is suspended at an await; a sleeping
\* task may be woken late, a request may take any time.
Tick(horizon) ==
    /\ mainpc = "blocked"
    /\ now < horizon
    /\ now' = now + 1
    /\ UNCHANGED <<activities, mainpc, spawned, pc, num_retries, prev_time, wait_time,
                   sleep_sec, wake_at, dto, nw_activity, response, result, outcome,
                   outs, sent, gets, budget, calls, panic>>

\* The sleeps that are running: those of the tasks, and main's
Deadlines ==
    {wake_at[i] : i \in {j \in Runners : pc[j] \in {"sleep_until", "backoff", "cooldown"}}}
        \cup {SupervisorSleepMinutes}

\* Task i is suspended in a sleep that is not over
Asleep(i) == pc[i] \in {"sleep_until", "backoff", "cooldown"} /\ wake_at[i] > now

\* While main and every living task are asleep, the clock runs on to the
\* first deadline ahead of it
Advance ==
    /\ mainpc = "blocked"
    /\ now < SupervisorSleepMinutes
    /\ \A i \in Runners : pc[i] = "dead" \/ Asleep(i)
    /\ \E d \in Deadlines :
          /\ d > now
          /\ \A e \in Deadlines : e > now => d <= e
          /\ now' = d
    /\ UNCHANGED <<activities, mainpc, spawned, pc, num_retries, prev_time, wait_time,
                   sleep_sec, wake_at, dto, nw_activity, response, result, outcome,
                   outs, sent, gets, budget, calls, panic>>

\* The thread of spawn_blocking has slept its 365 days: the await of main
\* completes, main returns Ok(()), the runtime is dropped with every task
\* still in it and the process exits. (main blocks at time 0.)
Exit ==
    /\ mainpc = "blocked"
    /\ now >= SupervisorSleepMinutes
    /\ mainpc' = "exited"
    /\ UNCHANGED <<activities, spawned, now, pc, num_retries, prev_time, wait_time,
                   sleep_sec, wake_at, dto, nw_activity, response, result, outcome,
                   outs, sent, gets, budget, calls, panic>>

\* ------------------------------------------------------ task pieces
\* Variant of PanicKills in which a panic takes the whole process down
PanicKills_process(i) == Runners

\* A panic unwinds to the boundary of the task it happens in: tokio ends
\* that task and keeps polling the others.
PanicKills(i) == {i}

Die(i, why) ==
    /\ pc' = [j \in Runners |-> IF j \in PanicKills(i) THEN "dead" ELSE pc[j]]
    /\ panic' = [panic EXCEPT ![i] = why]

\* Variant of schedule_next that yields an instant again when asked for
\* the one after it
schedule_next_inclusive(cron, after) ==
    ((after + cron.every - 1) \div cron.every) * cron.every

\* ScheduleIterator::next: the first instant of the schedule after `after`
schedule_next(cron, after) == ((after \div cron.every) + 1) * cron.every

\* Duration::to_std: Err on a negative duration
to_std_fails(d) == d < 0

\* A new iteration of the loop: nothing of the previous occurrence is kept
NewOccurrence(i) ==
    /\ response' = [response EXCEPT ![i] = NoResponse]
    /\ result' = [result EXCEPT ![i] = NoResult]
    /\ outcome' = [outcome EXCEPT ![i] = Pending]
    /\ outs' = [outs EXCEPT ![i] = <<>>]
    /\ sent' = [sent EXCEPT ![i] = <<>>]
    /\ gets' = [gets EXCEPT ![i] = 0]
    /\ budget' = [budget EXCEPT ![i] = 0]
    /\ calls' = [calls EXCEPT ![i] = 0]

\* The body of `for next_time in schedule.upcoming(swe_tz)` up to its sleep
LoopTop(i, after) ==
    LET next_time == schedule_next(activities[i].cron_time, after)
        wt == next_time - now
        secs == as_unsigned(wt * 60)
    IN /\ prev_time' = [prev_time EXCEPT ![i] = next_time]
       /\ NewOccurrence(i)
       /\ wait_time' = [wait_time EXCEPT ![i] = wt]
       /\ sleep_sec' = [sleep_sec EXCEPT ![i] = secs]
       /\ IF to_std_fails(wt)
          THEN /\ Die(i, "wait_time.to_std().unwrap()")
               /\ UNCHANGED wake_at
          ELSE /\ pc' = [pc EXCEPT ![i] = "sleep_until"]
               /\ wake_at' = [wake_at EXCEPT ![i] = now + (secs.low \div 60)]
               /\ UNCHANGED panic

\* a - b on u8, as a release build computes it (never reached with a < b
\* unless the counter underflows)
wrapping_sub_u8(a, b) == (a - b + 256) % 256

\* Variant of run_booking without the test of num_retries == 0
run_booking_unchecked(i, n) ==
    /\ num_retries' = [num_retries EXCEPT ![i] = n]
    /\ calls' = [calls EXCEPT ![i] = @ + 1]
    /\ pc' = [pc EXCEPT ![i] = "get"]
    /\ gets' = [gets EXCEPT ![i] = @ + 1]
    /\ response' = [response EXCEPT ![i] = NoResponse]
    /\ UNCHANGED <<outcome, panic>>

\* run_booking(activity, n), from its first line to its first await or return
run_booking(i, n) ==
    /\ num_retries' = [num_retries EXCEPT ![i] = n]
    /\ calls' = [calls EXCEPT ![i] = @ + 1]
    /\ IF n = 0
       THEN \* return Err(Error::msg(activity.name.clone())); in main, expect panics
            /\ outcome' = [outcome EXCEPT ![i] =
                              [kind |-> "Err", msg |-> activities[i].name]]
            /\ Die(i, "Unable to book!")
            /\ UNCHANGED <<gets, response>>
       ELSE \* find_activity_by_name: reqwest::get(...).await
            /\ pc' = [pc EXCEPT ![i] = "get"]
            /\ gets' = [gets EXCEPT ![i] = @ + 1]
            /\ response' = [response EXCEPT ![i] = NoResponse]
            /\ UNCHANGED <<outcome, panic>>

\* Variant of AttemptErr in which run_booking issues the next search at
\* once, without the one-minute sleep
AttemptErr_skips_backoff(i, msg, kind) ==
    /\ result' = [result EXCEPT ![i] = Err(msg)]
    /\ outs' = [outs EXCEPT ![i] = Append(@, kind)]
    /\ pc' = [pc EXCEPT ![i] = "get"]
    /\ wake_at' = [wake_at EXCEPT ![i] = 0]
    /\ dto' = [dto EXCEPT ![i] = <<>>]
    /\ nw_activity' = [nw_activity EXCEPT ![i] = None]
    /\ UNCHANGED <<outcome, panic>>

\* find_activity_by_name returned Err(e): run_booking logs it and sleeps
AttemptErr(i, msg, kind) ==
    /\ result' = [result EXCEPT ![i] = Err(msg)]
    /\ outs' = [outs EXCEPT ![i] = Append(@, kind)]
    /\ pc' = [pc EXCEPT ![i] = "backoff"]
    /\ wake_at' = [wake_at EXCEPT ![i] = now + BackoffMinutes]
    /\ dto' = [dto EXCEPT ![i] = <<>>]
    /\ nw_activity' = [nw_activity EXCEPT ![i] = None]
    /\ UNCHANGED <<outcome, panic>>

\* Variant of AttemptOk in which run_booking retries after an Ok as well
AttemptOk_then_retry(i, kind) ==
    /\ result' = [result EXCEPT ![i] = Ok]
    /\ outs' = [outs EXCEPT ![i] = Append(@, kind)]
    /\ pc' = [pc EXCEPT ![i] = "backoff"]
    /\ wake_at' = [wake_at EXCEPT ![i] = now + BackoffMinutes]
    /\ dto' = [dto EXCEPT ![i] = <<>>]
    /\ nw_activity' = [nw_activity EXCEPT ![i] = None]
    /\ UNCHANGED <<outcome, panic>>

\* find_activity_by_name returned Ok(()): every run_booking frame returns
\* Ok(()), expect passes and main sleeps the cooldown
AttemptOk(i, kind) ==
    /\ result' = [result EXCEPT ![i] = Ok]
    /\ outs' = [outs EXCEPT ![i] = Append(@, kind)]
    /\ outcome' = [outcome EXCEPT ![i] = [kind |-> "Ok", msg |-> <<>>]]
    /\ pc' = [pc EXCEPT ![i] = "cooldown"]
    /\ wake_at' = [wake_at EXCEPT ![i] = now + CooldownMinutes]
    /\ dto' = [dto EXCEPT ![i] = <<>>]
    /\ nw_activity' = [nw_activity EXCEPT ![i] = None]
    /\ UNCHANGED panic

Running(i) == mainpc = "blocked" /\ i \in Runners

\* Variant of reserved_entry that keeps the slot of the occurrence's first
\* reservation request for the later ones
reserved_entry_cached(i, list, k) ==
    IF sent[i] # <<>>
    THEN CHOOSE e \in Entries : e.id = sent[i][1].low
    ELSE list[k]

\* The entry whose id goes into the reservation request
reserved_entry(i, list, k) == list[k]

\* Variant of TaskStart in which the task goes into its loop without the
\* two expect calls on the cron expression
TaskStart_unchecked(i) ==
    /\ Running(i)
    /\ pc[i] = "start"
    /\ LoopTop(i, now)
    /\ UNCHANGED <<activities, mainpc, spawned, now, num_retries, dto, nw_activity>>

\* --------------------------------------------------------- the task
\* The spawned task from its start to the first sleep (or its panic)
TaskStart(i) ==
    /\ Running(i)
    /\ pc[i] = "start"
    /\ IF ~activities[i].cron_time.valid
       THEN /\ Die(i, "unable to parse cron expression")
            /\ UNCHANGED <<prev_time, wait_time, sleep_sec, wake_at, response, result,
                           outcome, outs, sent, gets, budget, calls>>
       ELSE IF ~activities[i].cron_time.describable
       THEN /\ Die(i, "unable to get readable cron expression")
            /\ UNCHANGED <<prev_time, wait_time, sleep_sec, wake_at, response, result,
                           outcome, outs, sent, gets, budget, calls>>
       ELSE LoopTop(i, now)
    /\ UNCHANGED <<activities, mainpc, spawned, now, num_retries, dto, nw_activity>>

\* The sleep before the occurrence is over: run_booking(activity, n)
Call(i, n) ==
    /\ Running(i)
    /\ pc[i] = "sleep_until"
    /\ now >= wake_at[i]
    /\ budget' = [budget EXCEPT ![i] = n]
    /\ run_booking(i, n)
    /\ wake_at' = [wake_at EXCEPT ![i] = 0]
    /\ UNCHANGED <<activities, mainpc, spawned, now, prev_time, wait_time, sleep_sec,
                   dto, nw_activity, result, outs, sent>>

\* tokio::time::sleep(sleep_sec) is over: run_booking(activity, 3)
WakeDone(i) == Call(i, NumRetries)

\* The listing request is over: the rest of find_activity_by_name up to
\* the reservation request (or its return, or its panic)
SearchResponse(i, responses) ==
    /\ Running(i)
    /\ pc[i] = "get"
    /\ \E r \in responses :
         IF r.kind = "transport"
         THEN AttemptErr(i, <<"error sending request">>, "TransportFailure")
              /\ UNCHANGED sent
         ELSE IF r.kind = "garbage"
         THEN AttemptErr(i, <<"expected value">>, "RemoteFailure")
              /\ UNCHANGED sent
         ELSE LET f == find(r.body, activities[i]) IN
              IF f.kind = "panic"
              THEN /\ Die(i, "called Option::unwrap() on a None value")
                   /\ UNCHANGED <<result, outs, wake_at, dto, nw_activity, outcome, sent>>
              ELSE IF f.kind = "none"
              THEN AttemptOk(i, "NotFound") /\ UNCHANGED sent
              ELSE LET it == reserved_entry(i, r.body, f.index) IN
                   /\ dto' = [dto EXCEPT ![i] = r.body]
                   /\ nw_activity' = [nw_activity EXCEPT ![i] = Some(it)]
                   /\ sent' = [sent EXCEPT ![i] = Append(@, as_unsigned(it.id))]
                   /\ pc' = [pc EXCEPT ![i] = "post"]
                   /\ UNCHANGED <<result, outs, wake_at, outcome, panic>>
    /\ UNCHANGED <<activities, mainpc, spawned, now, num_retries, prev_time, wait_time,
                   sleep_sec, response, gets, budget, calls>>

\* The reservation request is over: the rest of find_activity_by_name
BookResponse(i, responses) ==
    /\ Running(i)
    /\ pc[i] = "post"
    /\ \E r \in responses :
         /\ response' = [response EXCEPT ![i] = r]
         /\ IF r.kind = "transport"
            THEN AttemptErr(i, <<"error sending request">>, "TransportFailure")
            ELSE IF r.kind = "text_error"
            THEN AttemptErr(i, <<"error decoding response body">>, "TransportFailure")
            ELSE IF is_failure(r.status)
            THEN AttemptErr(i, err_msg(r.status, r.body), "RemoteFailure")
            ELSE AttemptOk(i, "Booked")
    /\ UNCHANGED <<activities, mainpc, spawned, now, num_retries, prev_time, wait_time,
                   sleep_sec, sent, gets, budget, calls>>

\* Variant of BackoffDone in which the retry is run in a task of its own
BackoffDone_spawns(i) ==
    /\ Running(i)
    /\ pc[i] = "backoff"
    /\ now >= wake_at[i]
    /\ run_booking(i, wrapping_sub_u8(num_retries[i], 1))
    /\ wake_at' = [wake_at EXCEPT ![i] = 0]
    /\ spawned' = spawned + 1
    /\ UNCHANGED <<activities, mainpc, now, prev_time, wait_time, sleep_sec,
                   dto, nw_activity, result, outs, sent, budget>>

\* The one-minute sleep is over: run_booking(activity, num_retries - 1)
BackoffDone(i) ==
    /\ Running(i)
    /\ pc[i] = "backoff"
    /\ now >= wake_at[i]
    /\ run_booking(i, wrapping_sub_u8(num_retries[i], 1))
    /\ wake_at' = [wake_at EXCEPT ![i] = 0]
    /\ UNCHANGED <<activities, mainpc, spawned, now, prev_time, wait_time, sleep_sec,
                   dto, nw_activity, result, outs, sent, budget>>

\* The five-minute sleep is over: the next iteration of the loop
CooldownDone(i) ==
    /\ Running(i)
    /\ pc[i] = "cooldown"
    /\ now >= wake_at[i]
    /\ LoopTop(i, prev_time[i])
    /\ UNCHANGED <<activities, mainpc, spawned, now, num_retries, dto, nw_activity>>

\* The process, with the provider answering from S (search) and B
\* (reservation) and the clock running up to h
NextWith(S, B, h) ==
    \/ Spawn
    \/ Block
    \/ Tick(h)
    \/ \E i \in Runners : TaskStart(i)
    \/ \E i \in Runners : WakeDone(i)
    \/ \E i \in Runners : SearchResponse(i, S)
    \/ \E i \in Runners : BookResponse(i, B)
    \/ \E i \in Runners : BackoffDone(i)
    \/ \E i \in Runners : CooldownDone(i)

\* One configured activity, its whole life.
Next == NextWith(ProviderResponses, BookResponses, MaxTime)

Spec == Init /\ [][Next]_vars

\* One configured activity up to the end of the first find_activity_by_name
\* call, against every listing of up to MaxListing entries.
NextFind ==
    \/ Spawn
    \/ Block
    \/ Tick(MaxFindTime)
    \/ \E i \in Runners : TaskStart(i)
    \/ \E i \in Runners : WakeDone(i)
    \/ \E i \in Runners : SearchResponse(i, SearchResponses)
    \/ \E i \in Runners : BookResponse(i, BookResponses)

SpecFind == Init /\ [][NextFind]_vars

\* Two configured activities side by side.
InitSiblings == InitWith(SiblingConfigurations)

NextSiblings == NextWith(SiblingSearchResponses, SiblingBookResponses, MaxSiblingTime)

SpecSiblings == InitSiblings /\ [][NextSiblings]_vars

\* One activity of a weekly or thirty-day schedule over the 365 days main
\* sleeps, the clock running from deadline to deadline.
InitYear == InitWith({<<YogaWeekly>>, <<YogaMonthly>>})

NextYear ==
    \/ Spawn
    \/ Block
    \/ Advance
    \/ Exit
    \/ \E i \in Runners : TaskStart(i)
    \/ \E i \in Runners : WakeDone(i)
    \/ \E i \in Runners : SearchResponse(i, YearSearchResponses)
    \/ \E i \in Runners : BookResponse(i, YearBookResponses)
    \/ \E i \in Runners : BackoffDone(i)
    \/ \E i \in Runners : CooldownDone(i)

SpecYear == InitYear /\ [][NextYear]_vars

\* One call of run_booking(activity, n) for every n up to MaxRetries, from
\* its first line to its return: every request comes back, every sleep ends.
InitRetry == InitWith({<<YogaMonday>>, <<BadDay>>})

NextRetry ==
    \/ Spawn
    \/ Block
    \/ Advance
    \/ \E i \in Runners : TaskStart(i)
    \/ \E i \in Runners : \E n \in 0..MaxRetries : Call(i, n)
    \/ \E i \in Runners : SearchResponse(i, SiblingSearchResponses)
    \/ \E i \in Runners : BookResponse(i, SiblingBookResponses)
    \/ \E i \in Runners : BackoffDone(i)

SpecRetry == InitRetry /\ [][NextRetry]_vars /\ WF_vars(NextRetry)

\* ============================================================ claims
Last(s) == s[Len(s)]

\* run_booking has returned for the current occurrence of task i
Returned(i) == outcome[i].kind # "pending"

\* The attempts of the current occurrence that ended in a reservation
BookedAt(i) == {k \in 1..Len(outs[i]) : outs[i][k] = "Booked"}

\* C1: with N = NumRetries, once run_booking has returned: if no attempt
\* succeeded, exactly N searches were made and the outcome is the exhausted
\* failure; if the first success was on attempt k, exactly k searches were
\* made, none after it, and the outcome is success.
C1_ExactAttempts ==
    \A i \in Runners :
        Returned(i) =>
            /\ BookedAt(i) = {} => gets[i] = NumRetries /\ outcome[i].kind = "Err"
            /\ \A k \in BookedAt(i) :
                  gets[i] = k /\ Len(outs[i]) = k /\ outcome[i].kind = "Ok"

\* C2: an attempt whose search found no matching entry counts as failed:
\* find_activity_by_name does not report it as Ok, and the task goes to the
\* backoff (or the exhausted failure), never to the cooldown of a success.
C2_NotFoundIsFailedAttempt ==
    \A i \in Runners :
        (outs[i] # <<>> /\ Last(outs[i]) = "NotFound") =>
            /\ ~result[i].ok
            /\ pc[i] # "cooldown"

\* C3: after run_booking returned the exhausted failure, the task is not
\* ended: it is on its way to the next occurrence.
C3_RunnerSurvivesExhaustion ==
    \A i \in Runners : outcome[i].kind = "Err" => pc[i] # "dead"

\* C5: when the instant taken from the schedule is not after the current
\* time, the wait is zero: the seconds slept are 0, not a wrapped value, and
\* the task did not end on the conversion of the wait.
C5_NonPositiveWaitIsZero ==
    \A i \in Runners :
        wait_time[i] <= 0 =>
            /\ sleep_sec[i] = [wrapped |-> FALSE, low |-> 0]
            /\ panic[i] # "wait_time.to_std().unwrap()"

\* Everything task j owns
TaskState(j) ==
    <<pc[j], num_retries[j], prev_time[j], wait_time[j], sleep_sec[j], wake_at[j],
      dto[j], nw_activity[j], response[j], result[j], outcome[j], outs[j], sent[j],
      gets[j], budget[j], calls[j], panic[j]>>

\* Task j has a step to take: it is at a request, or its sleep is over
Ready(j) ==
    /\ mainpc = "blocked"
    /\ \/ pc[j] \in {"start", "get", "post"}
       \/ pc[j] \in {"sleep_until", "backoff", "cooldown"} /\ now >= wake_at[j]

\* The steps of task j when two tasks run side by side
SiblingStep(j) ==
    \/ TaskStart(j)
    \/ WakeDone(j)
    \/ SearchResponse(j, SiblingSearchResponses)
    \/ BookResponse(j, SiblingBookResponses)
    \/ BackoffDone(j)
    \/ CooldownDone(j)

\* C4: a failure that ends one task (exhausted retries, an unparseable cron
\* expression, a panic while matching, a negative wait) leaves the process
\* up and every other task exactly as it was, and whatever has happened to
\* its siblings a task that has a step to take can take it.
C4_FailureStaysInItsTask ==
    /\ [](\A j \in Runners : Ready(j) => ENABLED SiblingStep(j))
    /\ [][\A i \in Runners :
            (pc[i] # "dead" /\ pc'[i] = "dead") =>
                /\ mainpc' = "blocked"
                /\ \A j \in Runners \ {i} : TaskState(j)' = TaskState(j)]_vars

\* C4 witness: one task has panicked on the exhausted failure and its
\* sibling is in the middle of an attempt, with a step to take.
C4_Witness ==
    \E i, j \in Runners :
        /\ i # j
        /\ pc[i] = "dead" /\ panic[i] = "Unable to book!"
        /\ pc[j] = "post" /\ Ready(j)

\* C6: a reservation response is a success exactly when its status is 200;
\* any other status gives an error carrying the status and the whole body;
\* a transport failure (of the request or of reading the body) gives an
\* error; and an error is handed to the retry, not taken for a booking.
C6_ReservationClassified ==
    \A i \in Runners :
        response[i].kind # "none" =>
            /\ result[i].ok <=> (response[i].kind = "response" /\ response[i].status = 200)
            /\ (response[i].kind = "response" /\ response[i].status # 200) =>
                   result[i].msg = <<"code ", response[i].status, ": ", response[i].body>>
            /\ response[i].kind \in {"transport", "text_error"} => ~result[i].ok
            /\ ~result[i].ok => Last(outs[i]) # "Booked" /\ pc[i] \in {"backoff", "dead"}
            /\ result[i].ok => Last(outs[i]) = "Booked" /\ outcome[i].kind = "Ok"

\* C6 witness: a 400 "Already booked" came back and the attempt failed with
\* that status and that body.
C6_Witness ==
    \E i \in Runners :
        /\ response[i] = [kind |-> "response", status |-> 400, body |-> "Already booked"]
        /\ ~result[i].ok
        /\ result[i].msg = <<"code ", 400, ": ", "Already booked">>
        /\ pc[i] = "backoff"

\* The three criteria of the Slot Matcher for entry e and activity a
SatisfiesAll(e, a) ==
    /\ contains(to_lowercase(e.name), to_lowercase(a.name))
    /\ parse_date(e.start_time).some
    /\ parse_weekday(a.day).some
    /\ weekday(parse_date(e.start_time).val) = parse_weekday(a.day).val
    /\ e.status = "Bookable"

\* The positions of listing l whose entry satisfies all three criteria
Matching(l, a) == {k \in 1..Len(l) : SatisfiesAll(l[k], a)}

\* C7: the entry selected is an entry of the listing that satisfies the
\* name, the weekday and the status criterion together, and a reservation
\* request is submitted only by a step that selected such an entry (so a
\* listing with no such entry selects nothing and submits nothing).
C7_SelectedSatisfiesAll ==
    /\ [](\A i \in Runners :
            pc[i] = "post" =>
                /\ nw_activity[i].some
                /\ \E k \in Matching(dto[i], activities[i]) : dto[i][k] = nw_activity[i].val)
    /\ [][\A i \in Runners :
            Len(sent'[i]) > Len(sent[i]) =>
                /\ pc'[i] = "post"
                /\ Matching(dto'[i], activities[i]) # {}]_vars

\* C7 witness: the first entry of the listing fails one criterion only (it
\* is Booked), the second satisfies all three and is the one selected.
C7_Witness ==
    \E i \in Runners :
        /\ pc[i] = "post"
        /\ Len(dto[i]) = 2
        /\ dto[i][1].id = 11 /\ dto[i][2].id = 7
        /\ nw_activity[i].val.id = 7

\* C8: when several entries satisfy all criteria the earliest in the
\* listing is selected, and its identifier is the one sent.
C8_EarliestMatchSelected ==
    \A i \in Runners :
        pc[i] = "post" =>
            LET m == Matching(dto[i], activities[i]) IN
            /\ m # {}
            /\ \E k \in m :
                  /\ \A n \in m : k <= n
                  /\ nw_activity[i].val = dto[i][k]
                  /\ Last(sent[i]) = [wrapped |-> FALSE, low |-> dto[i][k].id]

\* C8 witness: two different entries satisfy all criteria and the first of
\* them is selected.
C8_Witness ==
    \E i \in Runners :
        /\ pc[i] = "post"
        /\ Matching(dto[i], activities[i]) = {1, 2}
        /\ dto[i][1].id # dto[i][2].id
        /\ nw_activity[i].val = dto[i][1]

\* C9: within one occurrence a reservation request for a given slot
\* identifier is submitted at most once.
C9_OneReservationPerSlot ==
    \A i \in Runners :
        \A a, b \in 1..Len(sent[i]) : a # b => sent[i][a] # sent[i][b]

\* C9 as amended: within one occurrence at most one reservation request is
\* submitted per attempt, so at most NumRetries in all, and none after a
\* reservation came back with 200.
C9_OneReservationPerAttempt ==
    \A i \in Runners :
        /\ Len(sent[i]) <= gets[i]
        /\ gets[i] <= NumRetries
        /\ \A k \in BookedAt(i) :
              /\ k = Len(outs[i])
              /\ Len(sent[i]) <= k
              /\ pc[i] \notin {"get", "post", "backoff"}

\* C9 witness: the reservation of a slot came back as a failure and the
\* next attempt submitted the same slot again.
C9_Witness ==
    \E i \in Runners :
        /\ Len(sent[i]) = 2
        /\ sent[i][1] = sent[i][2]
        /\ outs[i][1] = "RemoteFailure"

\* C10: every attempt begins with a listing request of its own, carries no
\* listing or candidate over from an earlier attempt, and the slot of its
\* reservation request is an entry of the listing fetched in that attempt.
C10_FreshListingEachAttempt ==
    \A i \in Runners :
        /\ pc[i] \in {"get", "post"} =>
              /\ gets[i] = Len(outs[i]) + 1
              /\ gets[i] = NumRetries - num_retries[i] + 1
        /\ pc[i] = "get" => ~nw_activity[i].some /\ dto[i] = <<>>
        /\ pc[i] = "post" =>
              /\ nw_activity[i].some
              /\ \E k \in 1..Len(dto[i]) : dto[i][k] = nw_activity[i].val
              /\ Last(sent[i]).low = nw_activity[i].val.id

\* C10 witness: the second attempt of an occurrence reserves a slot other
\* than the one the first attempt reserved, taken from its own listing.
C10_Witness ==
    \E i \in Runners :
        /\ pc[i] = "post"
        /\ gets[i] = 2
        /\ Len(sent[i]) = 2
        /\ sent[i][1].low = 8 /\ sent[i][2].low = 7
        /\ \A k \in 1..Len(dto[i]) : dto[i][k].id # 8

\* C11: the exhausted failure that run_booking hands to main carries the
\* reason of the last failed attempt (for a reservation answered with 400,
\* that status and that body).
C11_ExhaustedCarriesLastReason ==
    \A i \in Runners :
        outcome[i].kind = "Err" => outcome[i].msg = result[i].msg

\* C12: once run_booking has returned, with success or with the exhausted
\* failure, the task sleeps the cooldown before it takes the next instant.
C12_CooldownAfterEveryOutcome ==
    \A i \in Runners : Returned(i) => pc[i] = "cooldown"

\* C14: an error that arises during an attempt never ends the task: a task
\* that has begun an attempt is still alive.
C14_AttemptErrorsNeverAbort ==
    \A i \in Runners : gets[i] > 0 => pc[i] # "dead"

\* C17: the backoff is slept only when attempts remain: no task sleeps a
\* backoff after the attempt that used up the last of its NumRetries.
C17_BackoffOnlyWhenAttemptsRemain ==
    \A i \in Runners : pc[i] = "backoff" => Len(outs[i]) < NumRetries

\* The panics a task with a parseable cron expression can end on
OwnPanics ==
    {"unable to get readable cron expression", "wait_time.to_std().unwrap()",
     "called Option::unwrap() on a None value", "Unable to book!"}

\* C13: a task whose cron expression does not parse never takes an instant
\* from a schedule, never searches and never reserves: it ends on the parse,
\* and only it does. A task whose expression parses never ends on another
\* task's parse failure, wherever the bad activity stands in the list.
C13_BadCronStopsOnlyItsRunner ==
    \A i \in Runners :
        IF ~activities[i].cron_time.valid
        THEN /\ pc[i] \in {"unspawned", "start", "dead"}
             /\ pc[i] = "dead" => panic[i] = "unable to parse cron expression"
             /\ prev_time[i] = 0 /\ wake_at[i] = 0
             /\ gets[i] = 0 /\ sent[i] = <<>> /\ ~Returned(i)
        ELSE /\ pc[i] = "dead" => panic[i] \in OwnPanics
             /\ pc[i] # "dead" => panic[i] = ""

\* C13 witness: the first configured activity has the unparseable
\* expression and has ended on it; the second one has searched and sent a
\* reservation request.
C13_Witness ==
    /\ Len(activities) = 2
    /\ ~activities[1].cron_time.valid /\ pc[1] = "dead"
    /\ activities[2].cron_time.valid /\ pc[2] = "post" /\ sent[2] # <<>>

\* The order of the awaits of one task
StepOrder ==
    {<<"unspawned", "start">>, <<"start", "sleep_until">>, <<"sleep_until", "get">>,
     <<"get", "post">>, <<"get", "backoff">>, <<"get", "cooldown">>,
     <<"post", "backoff">>, <<"post", "cooldown">>, <<"backoff", "get">>,
     <<"cooldown", "sleep_until">>,
     <<"start", "dead">>, <<"get", "dead">>, <<"backoff", "dead">>,
     <<"cooldown", "dead">>}

\* C18: a task moves from one await to the next in the order wait, search,
\* reservation, backoff or cooldown, next wait. A reservation request is
\* sent only by the step that ends the search of the same attempt, for a
\* Bookable entry that search selected; an attempt ends in the backoff or
\* the cooldown; an attempt that found no match sent no request.
C18_StepsInOrder ==
    [][\A i \in Runners :
         /\ pc'[i] # pc[i] => <<pc[i], pc'[i]>> \in StepOrder
         /\ Len(sent'[i]) > Len(sent[i]) =>
               /\ pc[i] = "get" /\ pc'[i] = "post"
               /\ gets[i] = Len(outs[i]) + 1 /\ Len(sent'[i]) <= gets[i]
               /\ nw_activity'[i].some
               /\ nw_activity'[i].val.status = "Bookable"
               /\ Last(sent'[i]) = as_unsigned(nw_activity'[i].val.id)
         /\ Len(outs'[i]) > Len(outs[i]) =>
               /\ pc[i] \in {"get", "post"}
               /\ pc'[i] \in {"backoff", "cooldown"}
               /\ Last(outs'[i]) = "NotFound" => pc[i] = "get" /\ sent'[i] = sent[i]
               /\ Last(outs'[i]) = "Booked" => pc[i] = "post"]_vars

\* C18 witness: one occurrence went through wait, search, reservation,
\* backoff, search, reservation and is in the cooldown.
C18_Witness ==
    \E i \in Runners :
        /\ pc[i] = "cooldown"
        /\ outs[i] = <<"RemoteFailure", "Booked">>
        /\ Len(sent[i]) = 2 /\ gets[i] = 2

\* The tasks main has spawned
Started == {i \in Runners : pc[i] # "unspawned"}

\* C19: main spawns one task per configured activity and nothing else ever
\* spawns one: the tasks started are as many as main has spawned, never more
\* than the configured activities, and all of them once main blocks; no
\* step of a retry or a search starts a task, and a step of one task leaves
\* everything the other tasks own as it was.
C19_OneTaskPerActivity ==
    /\ [](/\ Cardinality(Started) = spawned
          /\ spawned <= Len(activities)
          /\ mainpc = "blocked" => spawned = Len(activities))
    /\ [][/\ spawned' # spawned =>
                /\ mainpc = "spawning" /\ spawned' = spawned + 1
                /\ Started' = Started \cup {spawned'}
          /\ \A i \in Started :
                TaskState(i)' # TaskState(i) =>
                    \A j \in Runners \ {i} : TaskState(j)' = TaskState(j)]_vars

\* C19 witness: two activities, two tasks; one of them is in its second
\* attempt, the other has searched as well, and main has spawned two tasks.
C19_Witness ==
    /\ Len(activities) = 2 /\ spawned = 2 /\ Started = {1, 2}
    /\ \E i, j \in Runners :
          /\ i # j
          /\ gets[i] = 2 /\ pc[i] = "get"
          /\ gets[j] >= 1 /\ pc[j] # "dead"

\* C15: main stays blocked for as long as the process lives: the process
\* does not exit while a task is still alive.
C15_NoExitWhileRunnerActive ==
    mainpc = "exited" => \A i \in Runners : pc[i] = "dead"

====
